---- MODULE Spec2Model ----
(***************************************************************************)
(* Model of the merge tool of tts-mod-starter (bin/merge-tts-save-pro.js): *)
(* the luabundle-style script bundler bundleLuaIfNeeded and the part of    *)
(* main that calls it once per scripted entity and once for Global before  *)
(* writing the output document.                                            *)
(* The variables of one bundling call (rootCode, visited, modules, stack,  *)
(* warnings, loads, result) exist from the call to the moment main has     *)
(* taken its result; outside a call they hold their empty values.          *)
(*                                                                         *)
(* A Lua source is a sequence of tokens.  A token [t |-> "require", id]    *)
(* is one occurrence of the reference syntax REQUIRE_RE matches (either    *)
(* require("id") or require "id"), [t |-> "text"] is any other text.  The  *)
(* bundle is the flat token sequence out.join('\n\n') produces.            *)
(*                                                                         *)
(* The module files under LIB_DIR never change while the tool runs.  Which *)
(* ids have a file is fixed from the start; the content of a file is       *)
(* fixed when the code first reads it and kept in lib from then on.        *)
(***************************************************************************)
EXTENDS Naturals, Integers, Sequences, FiniteSets, TLC

VARIABLES
    pc,          \* "main", "bundling", "returned", "exit" or "done"
    libDir,      \* fs.existsSync(LIB_DIR)
    lib,         \* LIB_DIR: id -> NoFile, Unread, or the source read from it
    reLastIndex, \* REQUIRE_RE.lastIndex (the regex is global and shared)
    rootCode,    \* bundleLuaIfNeeded: parameter rootCode
    visited,     \* bundleLuaIfNeeded: const visited = new Set()
    modules,     \* bundleLuaIfNeeded: const modules = [] of {id, code}
    stack,       \* the call stack of loadModule (bottom: the root loop)
    warnings,    \* console.warn lines of the current bundling call
    loads,       \* readText calls of the current call: [id, anc], in order
    result,      \* what bundleLuaIfNeeded returned
    err,         \* what console.error named before process.exit(1)
    written      \* main: the output document has been written

VARIABLES
    rtChunks,    \* the __bundle_register calls of the bundle not yet executed
    rtModules,   \* emitLuabundleHeader: local modules = {} (name -> body)
    rtLoaded,    \* emitLuabundleHeader: local loaded = {} (name -> value)
    rtStack,     \* the Lua call stack of require (bottom: the bundle's main chunk)
    rtRan,       \* the names whose body has been started at least once
    rtLast,      \* the last require that returned: [name, val, how]
    rtErr        \* the name error() was raised for, "" if none

bundlerVars == <<pc, libDir, lib, reLastIndex, rootCode, visited, modules, stack,
                 warnings, loads, result, err, written>>
loaderVars == <<rtChunks, rtModules, rtLoaded, rtStack, rtRan, rtLast, rtErr>>
VARIABLES
    manifest,     \* main: const manifest = readJSON(manifestPath)
    mgIdx,        \* main: manifest.forEach(fileExistsStrict): the next index
    mgChecked,    \* what the last fileExistsStrict call found on disk
    manifestMap,  \* main: const manifestMap = {} (group key -> entries)
    asmStack,     \* the call stack of loadObjectFromManifest (bottom: main)
    objectStates, \* main: const objectStates (the assembled root nodes)
    mgErr         \* what console.error printed before the process ended

mergeVars == <<manifest, mgIdx, mgChecked, manifestMap, asmStack, objectStates,
               mgErr>>
VARIABLES
    doc,          \* split: data.ObjectStates, the objects in depth-first order
    splitIdx,     \* split: the next object saveObjectToFile is called on
    disk,         \* split: the files of outputDir, in the order of the writes
    inputSave     \* split: what is found at inputPath

splitVars == <<doc, splitIdx, disk, inputSave>>
VARIABLES
    customVersion, \* merge: const customVersion = getArg('--version')
    isCI,          \* merge: const isCI
    rawXml,        \* main: Global/UI.xml ("absent", or what its text holds)
    xmlBundle,     \* main: how the call of bundleXML ended, if it was made
    merged,        \* main: const merged, as far as the tail of main reads it
    buildDir,      \* the files of buildDir: name -> GameMode of the content
    archiveDir     \* the files of archiveDir: [from, GameMode]

outVars == <<customVersion, isCI, rawXml, xmlBundle, merged, buildDir, archiveDir>>
outsideBundler == <<loaderVars, mergeVars, splitVars, outVars>>
vars == <<bundlerVars, loaderVars, mergeVars, splitVars, outVars>>

(***************************************************************************)
(* Bounds of the model.                                                    *)
(***************************************************************************)
MaxRootLen == 2
MaxModLen == 2

\* The logical module ids that occur in sources.  "__root" is the id the
\* bundler reserves for the root body; nothing stops a source from using it.
RootId == "__root"
Ids == {"a", "b", RootId}
Exts == {"lua", "ttslua"}

NoFile == <<[t |-> "nofile", id |-> ""]>>
Unread == <<[t |-> "unread", id |-> ""]>>
NoErr == [kind |-> "none", id |-> ""]
NoResult == <<[t |-> "noresult", id |-> ""]>>

Text == [t |-> "text", id |-> ""]
Req(id) == [t |-> "require", id |-> id]

SeqsUpTo(S, n) == UNION {[1..k -> S] : k \in 0..n}
RootTokens == {Req(i) : i \in Ids} \cup {Text}
ModTokens == {Req(i) : i \in Ids}
RootCodes == SeqsUpTo(RootTokens, MaxRootLen)
\* The module files of the model are lists of require statements, each id
\* at most once; root sources are any token sequences.
Injective(s) == \A i, j \in 1..Len(s) : s[i] = s[j] => i = j
ModCodes == {s \in SeqsUpTo(ModTokens, MaxModLen) : Injective(s)}

Range(s) == {s[i] : i \in 1..Len(s)}
\* REQUIRE_RE matches somewhere in code.
HasRequire(code) == \E i \in 1..Len(code) : code[i].t = "require"
Last(s) == s[Len(s)]
Front(s) == SubSeq(s, 1, Len(s) - 1)

(***************************************************************************)
(* Pure functions of the bundler.                                          *)
(***************************************************************************)

\* findRequireIds: the exec loop starts at REQUIRE_RE.lastIndex, takes every
\* match after it and adds its id to a Set; Array.from(ids) lists the
\* distinct ids in first-seen order.
RECURSIVE ScanRequires(_, _, _)
ScanRequires(code, i, ids) ==
    IF i > Len(code) THEN ids
    ELSE IF code[i].t = "require" /\ code[i].id \notin Range(ids)
         THEN ScanRequires(code, i + 1, Append(ids, code[i].id))
         ELSE ScanRequires(code, i + 1, ids)

FindRequireIds(code, lastIndex) == ScanRequires(code, lastIndex + 1, <<>>)

\* LastIndexAfterScan with a fault: lastIndex stays behind the last match.
LastIndexKept(code) ==
    IF HasRequire(code)
    THEN CHOOSE i \in 1..Len(code) :
            code[i].t = "require" /\ \A j \in (i + 1)..Len(code) : code[j].t # "require"
    ELSE 0

\* The loop ends on the exec that returns null, which resets lastIndex.
LastIndexAfterScan(code) == 0

\* resolveModulePath: candidates base.lua then base.ttslua, first existing
\* one wins, null when neither exists.  ex[e] says whether candidate e exists.
ResolveModulePath(ex) ==
    IF ex["lua"] THEN "lua" ELSE IF ex["ttslua"] THEN "ttslua" ELSE "none"

\* A directory in which candidate file e of id exists iff ex[id][e].
LibOf(dirExists, ex) ==
    [id \in Ids |->
        IF dirExists /\ ResolveModulePath(ex[id]) # "none" THEN Unread ELSE NoFile]

\* readText(file): the content of the file found for id.
ReadText(id) == IF lib[id] = Unread THEN ModCodes ELSE {lib[id]}

\* emitLuabundleHeader: the fixed luabundle 1.6.0 loader text.
EmitLuabundleHeader == <<[t |-> "header", id |-> "1.6.0"]>>

\* One __bundle_register("id", function(...) code end) chunk.
Register(id, code) ==
    <<[t |-> "register", id |-> id]>> \o code \o <<[t |-> "end", id |-> ""]>>

RECURSIVE RegisterAll(_)
RegisterAll(ms) ==
    IF ms = <<>> THEN <<>>
    ELSE Register(Head(ms).id, Head(ms).code) \o RegisterAll(Tail(ms))

\* EmitBundle with a fault: the root body is registered before the modules.
EmitBundleRootFirst(ms, root) ==
    EmitLuabundleHeader \o Register(RootId, root) \o RegisterAll(ms)
        \o <<[t |-> "invoke", id |-> RootId]>>

\* The tail of bundleLuaIfNeeded: header, one chunk per entry of modules,
\* the root body as "__root", and the trailing return __bundle_require.
EmitBundle(ms, root) ==
    EmitLuabundleHeader \o RegisterAll(ms) \o Register(RootId, root)
        \o <<[t |-> "invoke", id |-> RootId]>>

(***************************************************************************)
(* The call stack of loadModule.  A frame is one activation: the id being  *)
(* loaded, the chain it was called with, its code and the ids of its       *)
(* for-loop not yet reached.  The bottom frame is the loop of              *)
(* bundleLuaIfNeeded over the root's requires.                             *)
(***************************************************************************)
RootFrame(requires) ==
    [kind |-> "root", id |-> RootId, chain |-> <<>>, code |-> <<>>, todo |-> requires]
ModuleFrame(id, chain, code, requires) ==
    [kind |-> "module", id |-> id, chain |-> chain, code |-> code, todo |-> requires]

Top == Last(stack)
NextSub == Head(Top.todo)
\* The chain a frame passes to the loadModule calls it makes.
ChainFor(f) == IF f.kind = "root" THEN <<RootId>> ELSE Append(f.chain, f.id)
\* The stack with the loop of its top frame advanced past the current id.
Advanced == [stack EXCEPT ![Len(stack)].todo = Tail(@)]
\* OnChain with a fault: the chain is never consulted.
OnChainNever == FALSE

\* chain.includes(sub) in the for-loop of loadModule.
OnChain == Top.kind = "module" /\ NextSub \in Range(Top.chain)
\* The ids whose loadModule activation is on the stack.
OnStack == {stack[i].id : i \in {j \in 1..Len(stack) : stack[j].kind = "module"}}
Calling == pc = "bundling" /\ stack # <<>> /\ Top.todo # <<>> /\ ~OnChain

FreshVisited == {}
FreshModules == <<>>

\* No bundle is being executed by the game: the loader's tables are empty.
NoBody == [src |-> "none", code |-> <<>>]
NoLast == [name |-> "", val |-> "nil", how |-> "none"]
LoaderOff ==
    /\ rtChunks = <<>>
    /\ rtModules = [id \in Ids |-> NoBody]
    /\ rtLoaded = [id \in Ids |-> "nil"]
    /\ rtStack = <<>>
    /\ rtRan = {}
    /\ rtLast = NoLast
    /\ rtErr = ""

\* The reconstruction of main is not looked at: its variables are empty.
NoCheck == [entry |-> 0, found |-> "none", guid |-> ""]
NoMgErr == [kind |-> "none", guid |-> "", path |-> 0]
MergeOff ==
    /\ manifest = <<>>
    /\ mgIdx = 0
    /\ mgChecked = NoCheck
    /\ manifestMap = <<>>
    /\ asmStack = <<>>
    /\ objectStates = <<>>
    /\ mgErr = NoMgErr

\* The split tool has not run: the data files are whatever is found.
SplitOff ==
    /\ doc = <<>>
    /\ splitIdx = 0
    /\ disk = <<>>
    /\ inputSave = "none"

\* The tail of merge's main is not looked at.
OutOff ==
    /\ customVersion = ""
    /\ isCI = FALSE
    /\ rawXml = "absent"
    /\ xmlBundle = "notCalled"
    /\ merged = [ObjectStates |-> <<>>, GameMode |-> "", XmlUI |-> "unset"]
    /\ buildDir = <<>>
    /\ archiveDir = {}

Init ==
    /\ LoaderOff
    /\ MergeOff
    /\ SplitOff
    /\ OutOff
    /\ pc = "main"
    /\ libDir \in BOOLEAN
    /\ \E ex \in [Ids -> [Exts -> BOOLEAN]] : lib = LibOf(libDir, ex)
    /\ reLastIndex = 0
    /\ rootCode = <<>>
    /\ visited = {}
    /\ modules = <<>>
    /\ stack = <<>>
    /\ warnings = <<>>
    /\ loads = <<>>
    /\ result = NoResult
    /\ err = NoErr
    /\ written = FALSE

\* BundlePassThrough with a fault: the source is wrapped like any other root.
BundlePassThroughWrapped ==
    /\ pc = "main"
    /\ \E r \in RootCodes :
        /\ FindRequireIds(r, reLastIndex) = <<>>
        /\ reLastIndex' = LastIndexAfterScan(r)
        /\ rootCode' = r
        /\ result' = EmitBundle(<<>>, r)
    /\ pc' = "returned"
    /\ UNCHANGED <<libDir, lib, visited, modules, stack, warnings, loads, err, written>>
    /\ UNCHANGED outsideBundler

\* bundleLuaIfNeeded, no require in rootCode: return rootCode.
BundlePassThrough ==
    /\ pc = "main"
    /\ \E r \in RootCodes :
        /\ FindRequireIds(r, reLastIndex) = <<>>
        /\ reLastIndex' = LastIndexAfterScan(r)
        /\ rootCode' = r
        /\ result' = r
    /\ pc' = "returned"
    /\ UNCHANGED <<libDir, lib, visited, modules, stack, warnings, loads, err, written>>
    /\ UNCHANGED outsideBundler

\* bundleLuaIfNeeded, requires found but LIB_DIR does not exist: exit(1).
BundleNoLibDir ==
    /\ pc = "main"
    /\ ~libDir
    /\ \E r \in RootCodes :
        /\ FindRequireIds(r, reLastIndex) # <<>>
        /\ reLastIndex' = LastIndexAfterScan(r)
        /\ rootCode' = r
    /\ pc' = "exit"
    /\ err' = [kind |-> "noLibDir", id |-> ""]
    /\ UNCHANGED <<libDir, lib, visited, modules, stack, warnings, loads, result, written>>
    /\ UNCHANGED outsideBundler

\* bundleLuaIfNeeded, requires found: fresh visited and modules, then the
\* loop over the root's requires starts.
BundleBegin ==
    /\ pc = "main"
    /\ libDir
    /\ \E r \in RootCodes :
        /\ FindRequireIds(r, reLastIndex) # <<>>
        /\ reLastIndex' = LastIndexAfterScan(r)
        /\ rootCode' = r
        /\ stack' = <<RootFrame(FindRequireIds(r, reLastIndex))>>
    /\ pc' = "bundling"
    /\ visited' = FreshVisited
    /\ modules' = FreshModules
    /\ warnings' = <<>>
    /\ loads' = <<>>
    /\ UNCHANGED <<libDir, lib, result, err, written>>
    /\ UNCHANGED outsideBundler

\* loadModule's loop: sub is on the chain: warn and continue.
CircularSkip ==
    /\ pc = "bundling" /\ stack # <<>> /\ Top.todo # <<>>
    /\ OnChain
    /\ warnings' = Append(warnings, Append(Top.chain, NextSub))
    /\ stack' = Advanced
    /\ UNCHANGED <<pc, libDir, lib, reLastIndex, rootCode, visited, modules, loads, result, err, written>>
    /\ UNCHANGED outsideBundler

\* LoadVisited with a fault: a visited id is loaded again.
LoadVisitedAgain ==
    /\ Calling
    /\ NextSub \in visited
    /\ stack' = Append(Advanced,
            ModuleFrame(NextSub, ChainFor(Top), lib[NextSub],
                        FindRequireIds(lib[NextSub], reLastIndex)))
    /\ loads' = Append(loads, [id |-> NextSub, anc |-> OnStack])
    /\ UNCHANGED <<pc, libDir, lib, reLastIndex, rootCode, visited, modules, warnings, result, err, written>>
    /\ UNCHANGED outsideBundler

\* loadModule(id): if (visited.has(id)) return.
LoadVisited ==
    /\ Calling
    /\ NextSub \in visited
    /\ stack' = Advanced
    /\ UNCHANGED <<pc, libDir, lib, reLastIndex, rootCode, visited, modules, warnings, loads, result, err, written>>
    /\ UNCHANGED outsideBundler

\* LoadMissing with a fault: the id is reported and the walk goes on.
LoadMissingContinue ==
    /\ Calling
    /\ NextSub \notin visited
    /\ lib[NextSub] = NoFile
    /\ visited' = visited \cup {NextSub}
    /\ stack' = Advanced
    /\ err' = [kind |-> "missingModule", id |-> NextSub]
    /\ UNCHANGED <<pc, libDir, lib, reLastIndex, rootCode, modules, warnings, loads, result, written>>
    /\ UNCHANGED outsideBundler

\* loadModule(id): no candidate file: exit(1) naming the id.
LoadMissing ==
    /\ Calling
    /\ NextSub \notin visited
    /\ lib[NextSub] = NoFile
    /\ visited' = visited \cup {NextSub}
    /\ pc' = "exit"
    /\ err' = [kind |-> "missingModule", id |-> NextSub]
    /\ UNCHANGED <<libDir, lib, reLastIndex, rootCode, modules, stack, warnings, loads, result, written>>
    /\ UNCHANGED outsideBundler

\* LoadEnter with a fault: the id is not added to visited.
LoadEnterUnmarked ==
    /\ Calling
    /\ NextSub \notin visited
    /\ lib[NextSub] # NoFile
    /\ \E content \in ReadText(NextSub) :
        /\ lib' = [lib EXCEPT ![NextSub] = content]
        /\ reLastIndex' = LastIndexAfterScan(content)
        /\ stack' = Append(Advanced,
                ModuleFrame(NextSub, ChainFor(Top), content,
                            FindRequireIds(content, reLastIndex)))
    /\ loads' = Append(loads, [id |-> NextSub, anc |-> OnStack])
    /\ UNCHANGED <<pc, libDir, rootCode, visited, modules, warnings, result, err, written>>
    /\ UNCHANGED outsideBundler

\* loadModule(id): mark visited, resolve, read, and start the loop over the
\* ids the module's code requires.
LoadEnter ==
    /\ Calling
    /\ NextSub \notin visited
    /\ lib[NextSub] # NoFile
    /\ \E content \in ReadText(NextSub) :
        /\ lib' = [lib EXCEPT ![NextSub] = content]
        /\ reLastIndex' = LastIndexAfterScan(content)
        /\ stack' = Append(Advanced,
                ModuleFrame(NextSub, ChainFor(Top), content,
                            FindRequireIds(content, reLastIndex)))
    /\ visited' = visited \cup {NextSub}
    /\ loads' = Append(loads, [id |-> NextSub, anc |-> OnStack])
    /\ UNCHANGED <<pc, libDir, rootCode, modules, warnings, result, err, written>>
    /\ UNCHANGED outsideBundler

\* LoadFinish with a fault: the module is put at the front of the list.
LoadFinishUnshift ==
    /\ pc = "bundling" /\ stack # <<>>
    /\ Top.kind = "module" /\ Top.todo = <<>>
    /\ modules' = <<[id |-> Top.id, code |-> Top.code]>> \o modules
    /\ stack' = Front(stack)
    /\ UNCHANGED <<pc, libDir, lib, reLastIndex, rootCode, visited, warnings, loads, result, err, written>>
    /\ UNCHANGED outsideBundler

\* loadModule(id): the loop is over: modules.push({id, code}) and return.
LoadFinish ==
    /\ pc = "bundling" /\ stack # <<>>
    /\ Top.kind = "module" /\ Top.todo = <<>>
    /\ modules' = Append(modules, [id |-> Top.id, code |-> Top.code])
    /\ stack' = Front(stack)
    /\ UNCHANGED <<pc, libDir, lib, reLastIndex, rootCode, visited, warnings, loads, result, err, written>>
    /\ UNCHANGED outsideBundler

\* bundleLuaIfNeeded: the root loop is over: emit and return the bundle.
BundleEmit ==
    /\ pc = "bundling" /\ stack # <<>>
    /\ Top.kind = "root" /\ Top.todo = <<>>
    /\ result' = EmitBundle(modules, rootCode)
    /\ pc' = "returned"
    /\ UNCHANGED <<libDir, lib, reLastIndex, rootCode, visited, modules, stack, warnings, loads, err, written>>
    /\ UNCHANGED outsideBundler

\* main: the returned script is stored in the document (obj.LuaScript or
\* merged.LuaScript); the call and its variables are gone.
MainAttach ==
    /\ pc = "returned"
    /\ pc' = "main"
    /\ rootCode' = <<>>
    /\ visited' = {}
    /\ modules' = <<>>
    /\ stack' = <<>>
    /\ warnings' = <<>>
    /\ loads' = <<>>
    /\ result' = NoResult
    /\ UNCHANGED <<libDir, lib, reLastIndex, err, written>>
    /\ UNCHANGED outsideBundler

\* main: every script is bundled; validate and write the output document.
MainWrite ==
    /\ pc = "main"
    /\ written' = TRUE
    /\ pc' = "done"
    /\ UNCHANGED <<libDir, lib, reLastIndex, rootCode, visited, modules, stack, warnings, loads, result, err>>
    /\ UNCHANGED outsideBundler

WalkStep == CircularSkip \/ LoadVisited \/ LoadMissing \/ LoadEnter \/ LoadFinish \/ BundleEmit

Next ==
    \/ BundlePassThrough
    \/ BundleNoLibDir
    \/ BundleBegin
    \/ CircularSkip
    \/ LoadVisited
    \/ LoadMissing
    \/ LoadEnter
    \/ LoadFinish
    \/ BundleEmit
    \/ MainAttach
    \/ MainWrite

Spec == Init /\ [][Next]_vars

(***************************************************************************)
(* Helpers of the properties.                                              *)
(***************************************************************************)
\* The call in progress has returned a bundle (not the source unchanged).
Bundled == pc = "returned" /\ HasRequire(rootCode)
\* The ids of the __bundle_register chunks of an emitted text, in order.
RECURSIVE RegIds(_)
RegIds(out) ==
    IF out = <<>> THEN <<>>
    ELSE IF Head(out).t = "register" THEN <<Head(out).id>> \o RegIds(Tail(out))
    ELSE RegIds(Tail(out))
Count(s, x) == Cardinality({i \in 1..Len(s) : s[i] = x})
ModuleIds == [i \in 1..Len(modules) |-> modules[i].id]
LoadIds == [i \in 1..Len(loads) |-> loads[i].id]
Requires(code) == Range(FindRequireIds(code, 0))

\* C1: pass-through law.  A bundling call whose root source holds no
\* reference returns exactly that source: no header, no __root wrapper, no
\* trailing invocation, and no module is resolved or read, whether LIB_DIR
\* exists or not and whatever it holds.
C1_PassThrough ==
    (pc = "returned" /\ ~HasRequire(rootCode)) =>
        /\ result = rootCode
        /\ loads = <<>>
        /\ \A i \in 1..Len(result) : result[i].t = "text"

\* C1 witness: a non-empty source without references came back, once with
\* LIB_DIR holding read modules (an earlier call bundled from it).
C1_Witness ==
    /\ pc = "returned" /\ rootCode # <<>> /\ ~HasRequire(rootCode)
    /\ \E id \in Ids : lib[id] \notin {NoFile, Unread}

\* The work left in a bundling call: every id not yet visited may still cost
\* one activation with a loop over at most every id; every id still in a
\* loop costs one step; every activation costs its return.
RECURSIVE TodoLeft(_)
TodoLeft(st) == IF st = <<>> THEN 0 ELSE Len(Head(st).todo) + TodoLeft(Tail(st))
Measure ==
    Cardinality(Ids \ visited) * (Cardinality(Ids) + 2) + TodoLeft(stack) + Len(stack)

\* C2: bundling terminates on every module graph, cycles and
\* self-references included.  While a call is walking, some step of the walk
\* is always possible, every step strictly decreases a natural-number
\* measure or ends the call, and the only ways out are the returned bundle
\* and the exit on a module with no file: when every referenced id resolves,
\* the walk finishes and the bundle is produced.
C2_Terminates ==
    /\ [](pc = "bundling" => ENABLED WalkStep)
    /\ [][pc = "bundling" =>
            \/ pc' = "bundling" /\ Measure' < Measure
            \/ pc' = "returned" /\ HasRequire(rootCode) /\ result' = EmitBundle(modules, rootCode)
            \/ pc' = "exit" /\ lib[err'.id] = NoFile]_vars

\* C2 witness: a bundle was produced from a graph with a self-referencing
\* module and a longer cycle that was cut.
C2_Witness ==
    /\ Bundled
    /\ warnings # <<>>
    /\ \E id \in visited : id \in Requires(lib[id])
    /\ \E x, y \in visited : x # y /\ y \in Requires(lib[x]) /\ x \in Requires(lib[y])

\* C3: within one bundling call every logical id is read (readText) at most
\* once and pushed on the module list at most once, whatever the graph.
C3_AtMostOnce ==
    /\ Injective(LoadIds)
    /\ Injective(ModuleIds)
    /\ Range(ModuleIds) \subseteq Range(LoadIds)

\* C3 witness: a call returned after loading two modules, one of them
\* referenced by the root and by the other module, which is on a cycle.
C3_Witness ==
    /\ Bundled
    /\ Len(modules) = 2
    /\ \E x, y \in Range(ModuleIds) :
        /\ x # y
        /\ x \in Requires(rootCode) /\ y \in Requires(rootCode)
        /\ x \in Requires(lib[y]) /\ y \in Requires(lib[x])

\* The ids reachable from the root's references by following the references
\* of the modules read (ids is closed after at most one round per id).
RECURSIVE Closure(_, _)
Closure(ids, n) ==
    IF n = 0 THEN ids
    ELSE Closure(ids \cup UNION {Requires(lib[id]) :
                                    id \in {i \in ids : lib[i] \notin {NoFile, Unread}}},
                 n - 1)
Reachable == Closure(Requires(rootCode), Cardinality(Ids))

\* C4 (as claimed): when bundling succeeds, every module id reachable from
\* the root's references that has a file is on the emitted module list.
C4_Complete ==
    Bundled => \A id \in Reachable : lib[id] # NoFile => id \in Range(ModuleIds)

\* C5: the cycle scenario.  With a.lua requiring only b and b.lua requiring
\* only a, a call whose root references a (and possibly b as well, in either
\* order) returns a bundle with exactly one chunk registered as a, exactly
\* one as b, and exactly one Circular require warning was printed.
CycleAB ==
    /\ "a" \in Requires(rootCode) /\ Requires(rootCode) \subseteq {"a", "b"}
    /\ lib["a"] = <<Req("b")>> /\ lib["b"] = <<Req("a")>>
C5_CycleScenario ==
    (Bundled /\ CycleAB) =>
        /\ Count(RegIds(result), "a") = 1
        /\ Count(RegIds(result), "b") = 1
        /\ Len(warnings) = 1

\* C5 witness: the scenario with a root that references a and then b.
C5_Witness == Bundled /\ CycleAB /\ FindRequireIds(rootCode, 0) = <<"a", "b">>

\* C6 (as claimed): the chunks of the bundle are registered in the order the
\* modules were discovered (a module before the modules it references), the
\* root body last.
C6_PreOrder == Bundled => RegIds(result) = LoadIds \o <<RootId>>

Pos(id) == CHOOSE i \in 1..Len(modules) : modules[i].id = id
\* The ids discovered by the root loop itself, in the order of discovery.
RECURSIVE TopLevel(_)
TopLevel(ls) ==
    IF ls = <<>> THEN <<>>
    ELSE IF Head(ls).anc = {} THEN <<Head(ls).id>> \o TopLevel(Tail(ls))
    ELSE TopLevel(Tail(ls))
RECURSIVE IsSubSeq(_, _)
IsSubSeq(s, t) ==
    IF s = <<>> THEN TRUE
    ELSE IF t = <<>> THEN FALSE
    ELSE IF Head(s) = Head(t) THEN IsSubSeq(Tail(s), Tail(t))
    ELSE IsSubSeq(s, Tail(t))

\* C6 (amended): the chunks are registered in post-order of the depth-first
\* walk.  Every module read is registered; of two modules, the one
\* discovered later comes first exactly when it was discovered while the
\* other's loadModule call was still running, else the one discovered
\* earlier comes first; the root loop discovers ids in the first-seen order
\* of the root's references; the root body is registered last.
C6_PostOrder ==
    Bundled =>
        /\ RegIds(result) = ModuleIds \o <<RootId>>
        /\ Range(ModuleIds) = Range(LoadIds)
        /\ IsSubSeq(TopLevel(loads), FindRequireIds(rootCode, 0))
        /\ \A i, j \in 1..Len(loads) :
            i < j =>
                IF loads[i].id \in loads[j].anc
                THEN Pos(loads[j].id) < Pos(loads[i].id)
                ELSE Pos(loads[i].id) < Pos(loads[j].id)

\* C6 witness: a bundle of three modules: one discovered below another, and
\* one discovered after both had returned.
C6_Witness ==
    /\ Bundled
    /\ Len(loads) = 3
    /\ loads[1].id \in loads[2].anc
    /\ loads[3].anc = {}

\* C7 (as claimed): a cycle warning lists the whole recursion path: when
\* module M, being loaded, references an id X that is on its chain, the
\* warning printed is the chain from the root entry down to and including M,
\* followed by X.
C7_FullChain ==
    [][Len(warnings') = Len(warnings) + 1 =>
            Last(warnings') = Append(Append(Top.chain, Top.id), NextSub)]_vars

RECURSIVE WalkFrom(_, _, _, _), WalkAll(_, _, _, _, _)
WalkFrom(files, id, chain, acc) ==
    IF id \in acc.vis THEN acc
    ELSE LET below == WalkAll(files, FindRequireIds(files[id], 0), chain, Append(chain, id),
                              [vis |-> acc.vis \cup {id}, mods |-> acc.mods])
         IN  [vis |-> below.vis,
              mods |-> Append(below.mods, [id |-> id, code |-> files[id]])]
WalkAll(files, todo, skip, chain, acc) ==
    IF todo = <<>> THEN acc
    ELSE IF Head(todo) \in Range(skip) THEN WalkAll(files, Tail(todo), skip, chain, acc)
    ELSE WalkAll(files, Tail(todo), skip, chain, WalkFrom(files, Head(todo), chain, acc))
BundleOf(files, root) ==
    IF ~HasRequire(root) THEN root
    ELSE EmitBundle(WalkAll(files, FindRequireIds(root, 0), <<>>, <<RootId>>,
                            [vis |-> {}, mods |-> <<>>]).mods,
                    root)

\* C9: determinism without cross-call state.  Whatever bundling calls came
\* before (main makes one per scripted entity and one for Global), what a
\* call returns is the function BundleOf of its root source and of the
\* module files: the same root gives the same output every time, and a
\* module a call needs is emitted by it even if an earlier call emitted it.
C9_Deterministic == pc = "returned" => result = BundleOf(lib, rootCode)

\* C9 witness: a call returned a bundle holding a module while LIB_DIR holds
\* another module that only an earlier call of the same run has read.
C9_Witness ==
    /\ Bundled
    /\ modules # <<>>
    /\ \E id \in Ids \ visited : lib[id] \notin {NoFile, Unread}
    /\ \E id \in visited : id \in Requires(rootCode) /\ Requires(lib[id]) # {}

\* The chunks of an emitted text read back from its tokens: a register
\* token, the body up to the next end token, and so on; anything else is
\* kept as one chunk with no id.
FirstEnd(toks) == CHOOSE n \in 1..Len(toks) :
    toks[n].t = "end" /\ \A k \in 1..(n - 1) : toks[k].t # "end"
RECURSIVE ParseChunks(_)
ParseChunks(toks) ==
    IF toks = <<>> THEN <<>>
    ELSE IF Head(toks).t = "register" /\ \E n \in 1..Len(toks) : toks[n].t = "end"
         THEN <<[id |-> Head(toks).id, code |-> SubSeq(toks, 2, FirstEnd(toks) - 1)]>>
                \o ParseChunks(SubSeq(toks, FirstEnd(toks) + 1, Len(toks)))
         ELSE <<[id |-> "", code |-> toks]>>

\* C10: bundle layout.  Whenever the root has a reference, the returned text
\* is the fixed header, then one registered chunk per module read, each
\* under its logical id and holding that module's file content, then the
\* root body registered as "__root", then one trailing invocation of
\* "__root" and nothing else; a root that references a single module which
\* references nothing yields exactly one module chunk.
C10_Layout ==
    Bundled =>
        LET chunks == ParseChunks(SubSeq(result, 2, Len(result) - 1)) IN
        /\ Len(result) >= 2
        /\ <<result[1]>> = EmitLuabundleHeader
        /\ Last(result) = [t |-> "invoke", id |-> RootId]
        /\ Len(chunks) = Cardinality(visited) + 1
        /\ {chunks[i].id : i \in 1..(Len(chunks) - 1)} = visited
        /\ \A i \in 1..(Len(chunks) - 1) : chunks[i].code = lib[chunks[i].id]
        /\ Last(chunks) = [id |-> RootId, code |-> rootCode]
        /\ \A id \in Ids :
            (Requires(rootCode) = {id} /\ lib[id] = <<>>) => Len(chunks) = 2

\* C10 witness: the leaf scenario, a root with text and one reference to a
\* module that references nothing.
C10_Witness ==
    /\ Bundled
    /\ Requires(rootCode) = {"a"} /\ lib["a"] = <<>>
    /\ Len(rootCode) = 2 /\ rootCode[1] = Text

\* C23: entry-point integrity.  In every bundle a call returns, the ids of
\* the __bundle_register chunks are pairwise distinct, "__root" included: no
\* module is registered under the entry id, so the chunk registered as
\* "__root" that the loader keeps (the first one) is the root body.
C23_EntryPoint ==
    Bundled =>
        /\ Injective(RegIds(result))
        /\ RootId \notin Range(ModuleIds)

(***************************************************************************)
(* The runtime loader of emitLuabundleHeader, executing a bundle in the    *)
(* game.  The bundle's main chunk runs the header, then one                *)
(* __bundle_register call per chunk, then __bundle_require("__root").  The *)
(* body of a chunk is its Lua code: it executes its require calls in       *)
(* order and returns a value.  Lua values are "nil", "false", "table" (any *)
(* other value) and "placeholder" (the loadingPlaceholder table).  The     *)
(* code of a chunk is fixed when the body first runs.                      *)
(***************************************************************************)
LuaResults == {"nil", "false", "table"}
\* Lua truthiness: everything but nil and false.
Truthy(v) == v \notin {"nil", "false"}

\* The __bundle_register calls of a bundle of the modules ids and a root.
ChunksOf(ids) ==
    [i \in 1..Len(ids) |-> [id |-> ids[i], src |-> "module"]]
        \o <<[id |-> RootId, src |-> "root"]>>
ModuleLists == {ids \in SeqsUpTo(Ids, Cardinality(Ids)) : Injective(ids)}

\* The codes a chunk of the given origin can hold: any list of require
\* calls naming each id at most once; the root of a bundle has at least one.
LoaderCodes == {[i \in 1..Len(ids) |-> Req(ids[i])] : ids \in ModuleLists}
CodesOf(src) ==
    IF src = "module" THEN LoaderCodes ELSE LoaderCodes \ {<<>>}
BodyCode(name) ==
    IF rtModules[name].code = Unread THEN CodesOf(rtModules[name].src)
    ELSE {rtModules[name].code}
\* The require calls a body executes, in order (a repeated call repeats).
RECURSIVE ReqSeq(_)
ReqSeq(code) ==
    IF code = <<>> THEN <<>>
    ELSE IF Head(code).t = "require" THEN <<Head(code).id>> \o ReqSeq(Tail(code))
    ELSE ReqSeq(Tail(code))

\* The main chunk after the header: the trailing __bundle_require("__root").
MainChunk == [name |-> "", todo |-> <<RootId>>]
RtTop == Last(rtStack)
RtName == Head(RtTop.todo)
RtAdvanced == [rtStack EXCEPT ![Len(rtStack)].todo = Tail(@)]
\* A require(name) call is about to execute.
RtCalling ==
    /\ rtChunks = <<>> /\ rtErr = ""
    /\ rtStack # <<>> /\ RtTop.todo # <<>>

RtInit ==
    /\ \E ids \in ModuleLists : rtChunks = ChunksOf(ids)
    /\ rtModules = [id \in Ids |-> NoBody]
    /\ rtLoaded = [id \in Ids |-> "nil"]
    /\ rtStack = <<MainChunk>>
    /\ rtRan = {}
    /\ rtLast = NoLast
    /\ rtErr = ""
    /\ MergeOff
    /\ SplitOff
    /\ OutOff
    /\ pc = "done"
    /\ libDir = TRUE
    /\ lib = [id \in Ids |-> NoFile]
    /\ reLastIndex = 0
    /\ rootCode = <<>>
    /\ visited = {}
    /\ modules = <<>>
    /\ stack = <<>>
    /\ warnings = <<>>
    /\ loads = <<>>
    /\ result = NoResult
    /\ err = NoErr
    /\ written = TRUE

\* register(name, body): if not modules[name] then modules[name] = body end.
RtRegister ==
    /\ rtChunks # <<>> /\ rtErr = ""
    /\ rtModules' =
        IF rtModules[Head(rtChunks).id] = NoBody
        THEN [rtModules EXCEPT ![Head(rtChunks).id] =
                [src |-> Head(rtChunks).src, code |-> Unread]]
        ELSE rtModules
    /\ rtChunks' = Tail(rtChunks)
    /\ UNCHANGED <<rtLoaded, rtStack, rtRan, rtLast, rtErr>>
    /\ UNCHANGED <<bundlerVars, mergeVars, splitVars, outVars>>

\* require(name), loaded[name] is the placeholder: return nil.
RtRequireLoading ==
    /\ RtCalling
    /\ rtLoaded[RtName] = "placeholder"
    /\ rtStack' = RtAdvanced
    /\ rtLast' = [name |-> RtName, val |-> "nil", how |-> "loading"]
    /\ UNCHANGED <<rtChunks, rtModules, rtLoaded, rtRan, rtErr>>
    /\ UNCHANGED <<bundlerVars, mergeVars, splitVars, outVars>>

\* require(name), loaded[name] is any other true value: return it.
RtRequireLoaded ==
    /\ RtCalling
    /\ Truthy(rtLoaded[RtName]) /\ rtLoaded[RtName] # "placeholder"
    /\ rtStack' = RtAdvanced
    /\ rtLast' = [name |-> RtName, val |-> rtLoaded[RtName], how |-> "loaded"]
    /\ UNCHANGED <<rtChunks, rtModules, rtLoaded, rtRan, rtErr>>
    /\ UNCHANGED <<bundlerVars, mergeVars, splitVars, outVars>>

\* require(name), nothing loaded and nothing registered: superRequire is
\* nil, so error('Tried to require "name", but no such module ...').
RtRequireUnregistered ==
    /\ RtCalling
    /\ ~Truthy(rtLoaded[RtName])
    /\ rtModules[RtName] = NoBody
    /\ rtErr' = RtName
    /\ UNCHANGED <<rtChunks, rtModules, rtLoaded, rtStack, rtRan, rtLast>>
    /\ UNCHANGED <<bundlerVars, mergeVars, splitVars, outVars>>

\* RtRequireRun with a fault: loaded[name] is not set before the body runs.
RtRequireRunUnmarked ==
    /\ RtCalling
    /\ ~Truthy(rtLoaded[RtName])
    /\ rtModules[RtName] # NoBody
    /\ \E code \in BodyCode(RtName) :
        /\ rtModules' = [rtModules EXCEPT ![RtName].code = code]
        /\ rtStack' = Append(RtAdvanced, [name |-> RtName, todo |-> ReqSeq(code)])
    /\ rtRan' = rtRan \cup {RtName}
    /\ UNCHANGED <<rtChunks, rtLoaded, rtLast, rtErr>>
    /\ UNCHANGED <<bundlerVars, mergeVars, splitVars, outVars>>

\* require(name), loaded[name] is nil or false and the name is registered:
\* loaded[name] = loadingPlaceholder, then the body is called.
RtRequireRun ==
    /\ RtCalling
    /\ ~Truthy(rtLoaded[RtName])
    /\ rtModules[RtName] # NoBody
    /\ \E code \in BodyCode(RtName) :
        /\ rtModules' = [rtModules EXCEPT ![RtName].code = code]
        /\ rtStack' = Append(RtAdvanced, [name |-> RtName, todo |-> ReqSeq(code)])
    /\ rtLoaded' = [rtLoaded EXCEPT ![RtName] = "placeholder"]
    /\ rtRan' = rtRan \cup {RtName}
    /\ UNCHANGED <<rtChunks, rtLast, rtErr>>
    /\ UNCHANGED <<bundlerVars, mergeVars, splitVars, outVars>>

\* The body returns: loaded[name] = loadedModule; return loadedModule.
RtReturn ==
    /\ rtChunks = <<>> /\ rtErr = ""
    /\ Len(rtStack) > 1 /\ RtTop.todo = <<>>
    /\ \E v \in LuaResults :
        /\ rtLoaded' = [rtLoaded EXCEPT ![RtTop.name] = v]
        /\ rtLast' = [name |-> RtTop.name, val |-> v, how |-> "ran"]
    /\ rtStack' = Front(rtStack)
    /\ UNCHANGED <<rtChunks, rtModules, rtRan, rtErr>>
    /\ UNCHANGED <<bundlerVars, mergeVars, splitVars, outVars>>

RtNext ==
    \/ RtRegister
    \/ RtRequireLoading
    \/ RtRequireLoaded
    \/ RtRequireUnregistered
    \/ RtRequireRun
    \/ RtReturn

RtSpec == RtInit /\ [][RtNext]_vars

\* The bundle has run to its end: the main chunk's require has returned.
RtFinished == rtChunks = <<>> /\ Len(rtStack) = 1 /\ RtTop.todo = <<>>
\* The names whose body is running, outermost first.
RtRunning == [i \in 1..(Len(rtStack) - 1) |-> rtStack[i + 1].name]

\* C11 (as claimed): the loader memoizes every module.  Whatever the
\* sequence of require calls and whatever a body returns (nil and false
\* included), the body of a registered module is started at most once: a
\* require never starts a body that has been started before.
C11_Memoized ==
    [][Len(rtStack') = Len(rtStack) + 1 => Last(rtStack').name \notin rtRan]_vars

\* The work left in a run of the bundle: the register calls still to make,
\* and the require calls left on the call stack, an outer frame's call
\* weighing more than everything a deeper frame can hold.
RtDepth == Cardinality(Ids) + 1
RtWeight == Cardinality(Ids) + 2
RECURSIVE RtStackWeight(_)
RtStackWeight(d) ==
    IF d > Len(rtStack) THEN 0
    ELSE (Len(rtStack[d].todo) + 1) * RtWeight ^ (RtDepth - d) + RtStackWeight(d + 1)
RtMeasure == Len(rtChunks) + RtStackWeight(1)

\* C12: re-entrancy.  While the body of a module is running its loaded entry
\* is the placeholder, and a require of that module returns nil without
\* starting the body again; so no module is ever nested in itself, the
\* nesting of bodies is bounded by the number of modules, and a run of the
\* bundle always finishes (or stops on an unregistered name): some step is
\* possible until then and every step lowers a natural-number measure.
C12_Reentrant ==
    /\ [](Injective(RtRunning))
    /\ [](\A i \in 1..Len(RtRunning) : rtLoaded[RtRunning[i]] = "placeholder")
    /\ []((rtErr = "" /\ ~RtFinished /\ rtStack # <<>>) => ENABLED RtNext)
    /\ [][(RtCalling /\ RtName \in Range(RtRunning)) =>
            /\ rtLast' = [name |-> RtName, val |-> "nil", how |-> "loading"]
            /\ rtStack' = RtAdvanced
            /\ rtRan' = rtRan /\ rtLoaded' = rtLoaded]_vars
    /\ [][rtStack # <<>> =>
            \/ rtErr' # ""
            \/ Len(rtStack') <= RtDepth /\ RtMeasure' < RtMeasure]_vars

\* C12 witness: a bundle in which a requires b and b requires a has run to
\* its end, both bodies having run.
C12_Witness ==
    /\ RtFinished /\ rtErr = ""
    /\ {"a", "b"} \subseteq rtRan
    /\ rtModules["a"].code = <<Req("b")>>
    /\ rtModules["b"].code = <<Req("a")>>

(***************************************************************************)
(* The reconstruction of main: validation of every manifest entry          *)
(* (fileExistsStrict), grouping by parent, and the recursive assembly      *)
(* loadObjectFromManifest on an explicit call stack.  An entry is          *)
(* [guid, parent, order, file]; null is written Null, an order is <<n>>    *)
(* for the number n and <<>> for anything that is not a number.  What a    *)
(* data file holds is fixed when the code reads it.                        *)
(***************************************************************************)
MaxEntries == 3

Null == "null"
RootKey == "__root__"
EntryGuids == {Null, "g1", RootKey}
EntryParents == {Null, "g1"}
EntryOrders == {<<>>, <<0>>}
FileGuids == {Null, "g1", "gx"}
EntryFields == [guid : EntryGuids, parent : EntryParents, order : EntryOrders]
Manifests ==
    UNION {{[i \in 1..n |-> [guid |-> m[i].guid, parent |-> m[i].parent,
                              order |-> m[i].order, file |-> i]] :
                m \in [1..n -> EntryFields]} : n \in 0..MaxEntries}

\* JavaScript truthiness of a guid: null (and a missing field) is false.
Declared(g) == g # Null

\* sortByOrderStable's comparator: ao - bo with +Infinity for an order that
\* is not a number; Infinity - Infinity is NaN, which sort takes as 0.
HasOrder(e) == Len(e.order) = 1
CompareOrder(a, b) ==
    IF HasOrder(a) /\ HasOrder(b) THEN a.order[1] - b.order[1]
    ELSE IF HasOrder(a) THEN -1
    ELSE IF HasOrder(b) THEN 1
    ELSE 0

\* SortByOrderStable with a fault: an entry with no order is taken as 0.
RECURSIVE SortIgnoringMissing(_)
SortIgnoringMissing(arr) ==
    IF arr = <<>> THEN <<>>
    ELSE LET rest == SortIgnoringMissing(Front(arr))
             x == Last(arr)
             key(i) == IF HasOrder(manifest[i]) THEN manifest[i].order[1] ELSE 0
             k == Cardinality({i \in 1..Len(rest) : key(rest[i]) <= key(x)})
         IN  SubSeq(rest, 1, k) \o <<x>> \o SubSeq(rest, k + 1, Len(rest))

\* sortByOrderStable(arr): arr.slice().sort(comparator); Array.prototype.sort
\* is stable: an element goes behind every element that does not compare
\* greater than it.  arr lists entries by their index in the manifest.
RECURSIVE SortByOrderStable(_)
SortByOrderStable(arr) ==
    IF arr = <<>> THEN <<>>
    ELSE LET rest == SortByOrderStable(Front(arr))
             x == Last(arr)
             k == Cardinality({i \in 1..Len(rest) :
                        \A j \in 1..i : CompareOrder(manifest[rest[j]], manifest[x]) <= 0})
         IN  SubSeq(rest, 1, k) \o <<x>> \o SubSeq(rest, k + 1, Len(rest))

\* main's grouping loop: key = entry.parent || '__root__', entries pushed in
\* manifest order.  A key that no entry names has no group (read as []).
DocGuids == {Null, "g1", "g2"}
GroupKeys == EntryGuids \cup EntryParents \cup DocGuids \cup {RootKey}
ParentKey(e) == IF Declared(e.parent) THEN e.parent ELSE RootKey
GroupByParent(m) ==
    [k \in GroupKeys |->
        IF k = Null THEN <<>>
        ELSE SelectSeq([i \in 1..Len(m) |-> i], LAMBDA i : ParentKey(m[i]) = k)]

\* What readJSON can find as ContainedObjects in a data file: no such field,
\* an empty list, or a list of objects.
OwnFields == {"none", "ownEmpty", "own"}

\* A frame of loadObjectFromManifest: the entry, the sorted children not yet
\* assembled, the children assembled, and what the node's ContainedObjects
\* field is: what the data file itself held, or "manifest" (the assembled
\* children).  The bottom frame is main's topLevel.map.
AsmFrame(e, uid, children, field) ==
    [e |-> e, obj |-> uid, todo |-> children, kids |-> <<>>, field |-> field]
AsmTop == Last(asmStack)
NextChild == Head(AsmTop.todo)
\* The entry about to be assembled is already being assembled further down.
Recursing == \E d \in 1..(Len(asmStack) - 1) : asmStack[d].e = AsmTop.e

\* main has read manifest.json and base.json; nothing else has happened.
MergeStart ==
    /\ LoaderOff
    /\ mgIdx = 1
    /\ mgChecked = NoCheck
    /\ manifestMap = <<>>
    /\ asmStack = <<>>
    /\ objectStates = <<>>
    /\ mgErr = NoMgErr
    /\ pc = "validating"
    /\ libDir = TRUE
    /\ lib = [id \in Ids |-> NoFile]
    /\ reLastIndex = 0
    /\ rootCode = <<>>
    /\ visited = {}
    /\ modules = <<>>
    /\ stack = <<>>
    /\ warnings = <<>>
    /\ loads = <<>>
    /\ result = NoResult
    /\ err = NoErr
    /\ written = FALSE

MgInit == manifest \in Manifests /\ MergeStart /\ SplitOff /\ OutOff

Validating == pc = "validating" /\ mgIdx <= Len(manifest)

\* fileExistsStrict(entry): the file does not exist: exit(1), the message
\* names the entry's guid and the expected path.
FileMissing ==
    /\ Validating
    /\ mgChecked' = [entry |-> mgIdx, found |-> "missing", guid |-> Null]
    /\ mgErr' = [kind |-> "missingFile", guid |-> manifest[mgIdx].guid,
                 path |-> manifest[mgIdx].file]
    /\ pc' = "exit"
    /\ UNCHANGED <<manifest, mgIdx, manifestMap, asmStack, objectStates>>
    /\ UNCHANGED <<libDir, lib, reLastIndex, rootCode, visited, modules, stack,
                   warnings, loads, result, err, written, loaderVars, splitVars, outVars>>

\* FileInvalid with a fault: the message is printed and forEach goes on.
FileInvalidContinue ==
    /\ Validating
    /\ mgChecked' = [entry |-> mgIdx, found |-> "unparsable", guid |-> Null]
    /\ mgErr' = [kind |-> "invalidJson", guid |-> "", path |-> manifest[mgIdx].file]
    /\ mgIdx' = mgIdx + 1
    /\ UNCHANGED <<manifest, manifestMap, asmStack, objectStates>>
    /\ UNCHANGED <<bundlerVars, loaderVars, splitVars, outVars>>

\* fileExistsStrict(entry): JSON.parse throws: exit(1), the message names
\* the path only.
FileInvalid ==
    /\ Validating
    /\ mgChecked' = [entry |-> mgIdx, found |-> "unparsable", guid |-> Null]
    /\ mgErr' = [kind |-> "invalidJson", guid |-> "", path |-> manifest[mgIdx].file]
    /\ pc' = "exit"
    /\ UNCHANGED <<manifest, mgIdx, manifestMap, asmStack, objectStates>>
    /\ UNCHANGED <<libDir, lib, reLastIndex, rootCode, visited, modules, stack,
                   warnings, loads, result, err, written, loaderVars, splitVars, outVars>>

\* The last record written to a path.
ReadDisk(path) ==
    disk[CHOOSE i \in 1..Len(disk) :
            disk[i].path = path /\ \A j \in (i + 1)..Len(disk) : disk[j].path # path].rec
\* readJSON of the data file of entry e: what split wrote there, or, when
\* the files are as found, any record.  uid tells the records apart.
ReadJSON(e) ==
    IF splitIdx > 0 THEN {ReadDisk(manifest[e].file)}
    ELSE {[uid |-> manifest[e].file, guid |-> g, own |-> o] : g \in FileGuids, o \in OwnFields}
RecordGuids(e) == {rec.guid : rec \in ReadJSON(e)}

\* entry.guid && json.GUID && entry.guid !== json.GUID
GuidMismatch(g, fg) == Declared(g) /\ Declared(fg) /\ g # fg

\* FileGuidMismatch with a fault: an entry without guid fails as well.
FileGuidMismatchUndeclared ==
    /\ Validating
    /\ \E fg \in RecordGuids(mgIdx) :
        /\ Declared(fg) /\ manifest[mgIdx].guid # fg
        /\ mgChecked' = [entry |-> mgIdx, found |-> "record", guid |-> fg]
    /\ mgErr' = [kind |-> "guidMismatch", guid |-> manifest[mgIdx].guid,
                 path |-> manifest[mgIdx].file]
    /\ pc' = "exit"
    /\ UNCHANGED <<manifest, mgIdx, manifestMap, asmStack, objectStates>>
    /\ UNCHANGED <<libDir, lib, reLastIndex, rootCode, visited, modules, stack,
                   warnings, loads, result, err, written, loaderVars, splitVars, outVars>>

\* fileExistsStrict(entry): both guids there and different: exit(1).
FileGuidMismatch ==
    /\ Validating
    /\ \E fg \in RecordGuids(mgIdx) :
        /\ GuidMismatch(manifest[mgIdx].guid, fg)
        /\ mgChecked' = [entry |-> mgIdx, found |-> "record", guid |-> fg]
    /\ mgErr' = [kind |-> "guidMismatch", guid |-> manifest[mgIdx].guid,
                 path |-> manifest[mgIdx].file]
    /\ pc' = "exit"
    /\ UNCHANGED <<manifest, mgIdx, manifestMap, asmStack, objectStates>>
    /\ UNCHANGED <<libDir, lib, reLastIndex, rootCode, visited, modules, stack,
                   warnings, loads, result, err, written, loaderVars, splitVars, outVars>>

\* fileExistsStrict(entry) returns: forEach goes on to the next entry.
FilePasses ==
    /\ Validating
    /\ \E fg \in RecordGuids(mgIdx) :
        /\ ~GuidMismatch(manifest[mgIdx].guid, fg)
        /\ mgChecked' = [entry |-> mgIdx, found |-> "record", guid |-> fg]
    /\ mgIdx' = mgIdx + 1
    /\ UNCHANGED <<manifest, manifestMap, asmStack, objectStates, mgErr>>
    /\ UNCHANGED <<bundlerVars, loaderVars, splitVars, outVars>>

\* The children loadObjectFromManifest finds for an entry:
\* sortByOrderStable(manifestMap[entry.guid] || []).
ChildrenOf(e) == SortByOrderStable(manifestMap[manifest[e].guid])

\* main, after the last fileExistsStrict: group the entries by parent, sort
\* the root group and start topLevel.map(loadObjectFromManifest).
MainGroup ==
    /\ pc = "validating" /\ mgIdx > Len(manifest)
    /\ manifestMap' = GroupByParent(manifest)
    /\ asmStack' = <<AsmFrame(0, 0, SortByOrderStable(GroupByParent(manifest)[RootKey]), "none")>>
    /\ mgChecked' = NoCheck
    /\ pc' = "assembling"
    /\ UNCHANGED <<manifest, mgIdx, objectStates, mgErr>>
    /\ UNCHANGED <<libDir, lib, reLastIndex, rootCode, visited, modules, stack,
                   warnings, loads, result, err, written, loaderVars, splitVars, outVars>>

\* What obj.ContainedObjects is when loadObjectFromManifest returns: the
\* assembled children if there are any, else whatever readJSON gave.
FieldOf(children, own) == IF children # <<>> THEN "manifest" ELSE own

\* loadObjectFromManifest(entry): readJSON of the data file (which may hold
\* a ContainedObjects field of its own), the script if there is one (given
\* to bundleLuaIfNeeded, the call Spec follows), and the sorted children;
\* then children.map starts.
LoadObjectEnter ==
    /\ pc = "assembling" /\ asmStack # <<>> /\ AsmTop.todo # <<>>
    /\ ~Recursing
    /\ \E rec \in ReadJSON(NextChild) :
        asmStack' = Append([asmStack EXCEPT ![Len(asmStack)].todo = Tail(@)],
            AsmFrame(NextChild, rec.uid, ChildrenOf(NextChild),
                     FieldOf(ChildrenOf(NextChild), rec.own)))
    /\ UNCHANGED <<manifest, mgIdx, mgChecked, manifestMap, objectStates, mgErr>>
    /\ UNCHANGED <<bundlerVars, loaderVars, splitVars, outVars>>

\* loadObjectFromManifest(entry) returns obj to the map of its caller.
LoadObjectReturn ==
    /\ pc = "assembling" /\ Len(asmStack) > 1 /\ AsmTop.todo = <<>>
    /\ asmStack' =
        [Front(asmStack) EXCEPT ![Len(asmStack) - 1].kids =
            Append(@, [e |-> AsmTop.e, obj |-> AsmTop.obj, field |-> AsmTop.field,
                       kids |-> AsmTop.kids])]
    /\ UNCHANGED <<manifest, mgIdx, mgChecked, manifestMap, objectStates, mgErr>>
    /\ UNCHANGED <<bundlerVars, loaderVars, splitVars, outVars>>

\* The entry being assembled is being assembled further down the stack: the
\* same calls repeat until the call stack is exhausted and the engine throws
\* RangeError, which nothing catches.
LoadObjectOverflow ==
    /\ pc = "assembling" /\ asmStack # <<>>
    /\ Recursing
    /\ mgErr' = [kind |-> "rangeError", guid |-> "", path |-> 0]
    /\ pc' = "exit"
    /\ UNCHANGED <<manifest, mgIdx, mgChecked, manifestMap, asmStack, objectStates>>
    /\ UNCHANGED <<libDir, lib, reLastIndex, rootCode, visited, modules, stack,
                   warnings, loads, result, err, written, loaderVars, splitVars, outVars>>

\* main: topLevel.map has returned objectStates.
MainAssembled ==
    /\ pc = "assembling" /\ Len(asmStack) = 1 /\ AsmTop.todo = <<>>
    /\ objectStates' = AsmTop.kids
    /\ asmStack' = <<>>
    /\ pc' = "assembled"
    /\ UNCHANGED <<manifest, mgIdx, mgChecked, manifestMap, mgErr>>
    /\ UNCHANGED <<libDir, lib, reLastIndex, rootCode, visited, modules, stack,
                   warnings, loads, result, err, written, loaderVars, splitVars, outVars>>

\* main: validateModStructure finds errors (one of them: ObjectStates is
\* empty): exit(1) before the write.
MainInvalidMod ==
    /\ pc = "assembled"
    /\ mgErr' = [kind |-> "validation", guid |-> "", path |-> 0]
    /\ pc' = "exit"
    /\ UNCHANGED <<manifest, mgIdx, mgChecked, manifestMap, asmStack, objectStates>>
    /\ UNCHANGED <<libDir, lib, reLastIndex, rootCode, visited, modules, stack,
                   warnings, loads, result, err, written, loaderVars, splitVars, outVars>>

\* main: validateModStructure passes and the merged document is written.
MainWriteMerged ==
    /\ pc = "assembled"
    /\ objectStates # <<>>
    /\ written' = TRUE
    /\ pc' = "done"
    /\ UNCHANGED mergeVars
    /\ UNCHANGED <<libDir, lib, reLastIndex, rootCode, visited, modules, stack,
                   warnings, loads, result, err, loaderVars, splitVars, outVars>>

MgNext ==
    \/ FileMissing
    \/ FileInvalid
    \/ FileGuidMismatch
    \/ FilePasses
    \/ MainGroup
    \/ LoadObjectEnter
    \/ LoadObjectReturn
    \/ LoadObjectOverflow
    \/ MainAssembled
    \/ MainInvalidMod
    \/ MainWriteMerged

MgSpec == MgInit /\ [][MgNext]_vars

(***************************************************************************)
(* Helpers of the properties of the reconstruction.                        *)
(***************************************************************************)
\* main holds the assembled forest.
Assembled == pc \in {"assembled", "done"} /\ manifestMap # <<>>
\* Every node of a forest, each with the nodes below it.
RECURSIVE NodesOf(_)
NodesOf(forest) ==
    IF forest = <<>> THEN {}
    ELSE {Head(forest)} \cup NodesOf(Head(forest).kids) \cup NodesOf(Tail(forest))
\* How often entry i occurs as a node of a forest.
RECURSIVE Occurrences(_, _)
Occurrences(forest, i) ==
    IF forest = <<>> THEN 0
    ELSE (IF Head(forest).e = i THEN 1 ELSE 0)
            + Occurrences(Head(forest).kids, i) + Occurrences(Tail(forest), i)
\* The group of the entries whose parent is the guid of entry e.
GroupOfEntry(e) ==
    SelectSeq([i \in 1..Len(manifest) |-> i],
              LAMBDA i : Declared(manifest[i].parent) /\ manifest[i].parent = manifest[e].guid)
RootGroup ==
    SelectSeq([i \in 1..Len(manifest) |-> i], LAMBDA i : ~Declared(manifest[i].parent))
\* The number of children an output node has (a list of objects taken from
\* the data file holds at least one).
NumChildren(node) ==
    IF node.field = "manifest" THEN Len(node.kids)
    ELSE IF node.field = "own" THEN 1 ELSE 0
EntriesOf(nodes) == [i \in 1..Len(nodes) |-> nodes[i].e]

\* C13 (as claimed): count law.  Whatever the data files hold, the output
\* has as many root nodes as the root group has entries, and every output
\* node has as many children as there are entries whose parent is the
\* node's guid.
C13_CountLaw ==
    Assembled =>
        /\ Len(objectStates) = Len(RootGroup)
        /\ \A node \in NodesOf(objectStates) :
            NumChildren(node) = Len(GroupOfEntry(node.e))

\* C16 (as claimed): a missing or unparsable data file of any entry aborts
\* the merge before anything is assembled, nothing is written, and the
\* error names the entry's guid and the expected path.
C16_NamesGuidAndPath ==
    mgChecked.found \in {"missing", "unparsable"} =>
        /\ pc = "exit" /\ ~written
        /\ asmStack = <<>> /\ objectStates = <<>> /\ manifestMap = <<>>
        /\ mgErr.guid = manifest[mgChecked.entry].guid
        /\ mgErr.path = manifest[mgChecked.entry].file

\* C16 (amended): a missing or unparsable data file of any entry, in the
\* root group or not, aborts the merge before anything is grouped,
\* assembled or bundled and nothing is written: grouping starts only when
\* fileExistsStrict has found a record for every entry, in manifest order.
\* For a missing file the error names the entry's guid and the expected
\* path; for an unparsable file it names the path and no guid.
C16_AbortsBeforeAssembly ==
    /\ [](mgChecked.found \in {"missing", "unparsable"} =>
            /\ pc = "exit" /\ ~written /\ ~ENABLED MgNext
            /\ asmStack = <<>> /\ objectStates = <<>> /\ manifestMap = <<>>
            /\ mgErr.path = manifest[mgChecked.entry].file
            /\ mgChecked.found = "missing" =>
                mgErr.kind = "missingFile" /\ mgErr.guid = manifest[mgChecked.entry].guid
            /\ mgChecked.found = "unparsable" =>
                mgErr.kind = "invalidJson" /\ mgErr.guid = "")
    /\ [](manifestMap # <<>> => mgIdx = Len(manifest) + 1)
    /\ [][mgIdx' # mgIdx =>
            /\ mgIdx' = mgIdx + 1
            /\ mgChecked' = [mgChecked' EXCEPT !.entry = mgIdx, !.found = "record"]]_vars

\* C16 witness: the merge stopped on the unparsable file of an entry that is
\* in no group reachable from the root, after an earlier entry had passed.
C16_Witness ==
    /\ pc = "exit" /\ mgErr.kind = "invalidJson"
    /\ mgChecked.entry > 1
    /\ manifest[mgChecked.entry].parent = "g1"
    /\ \A i \in 1..Len(manifest) : manifest[i].guid # "g1"

\* C17: id-mismatch rule.  When fileExistsStrict has read a record from an
\* entry's data file, the merge is aborted (with the GUID mismatch error)
\* exactly when the entry declares a guid, the record declares a GUID and
\* the two differ; in every other case the entry passes and validation goes
\* on with the next entry.
C17_MismatchRule ==
    mgChecked.found = "record" =>
        LET g == manifest[mgChecked.entry].guid IN
        /\ (pc = "exit") <=> (Declared(g) /\ Declared(mgChecked.guid) /\ g # mgChecked.guid)
        /\ pc = "exit" => mgErr.kind = "guidMismatch" /\ ~written /\ manifestMap = <<>>
        /\ pc # "exit" => pc = "validating" /\ mgIdx = mgChecked.entry + 1 /\ mgErr = NoMgErr

\* C17 witness: the second entry was refused for a GUID that differs from its
\* guid, after a first entry that declares a guid had passed.
C17_Witness ==
    /\ pc = "exit" /\ mgErr.kind = "guidMismatch"
    /\ mgChecked.entry = 2
    /\ manifest[1].guid = "g1"

\* C18 (as claimed): an output node has a children field only if the group
\* of its guid is non-empty, and then the field is the assembled, sorted
\* group; a node whose group is empty has no children field.
C18_ChildrenField ==
    Assembled =>
        \A node \in NodesOf(objectStates) :
            IF GroupOfEntry(node.e) = <<>> THEN node.field = "none"
            ELSE /\ node.field = "manifest"
                 /\ EntriesOf(node.kids) = SortByOrderStable(GroupOfEntry(node.e))

\* C19 (as claimed): every manifest entry is consumed exactly once: each
\* entry is exactly one node of the output forest.
C19_ExactlyOnce ==
    Assembled => \A i \in 1..Len(manifest) : Occurrences(objectStates, i) = 1

\* C20 (as claimed): the recursion of loadObjectFromManifest is never deeper
\* than the manifest has entries (the bottom frame is main), so assembly
\* never exhausts the call stack.
C20_DepthBounded ==
    /\ Len(asmStack) <= Len(manifest) + 1
    /\ mgErr.kind # "rangeError"

(***************************************************************************)
(* The merge of manifests as split writes them for one container and loose *)
(* objects, with every order a sibling can carry, all data files valid:    *)
(* the first entry is the container g1, every other entry is a root object *)
(* or a child of g1.                                                       *)
(***************************************************************************)
SortOrders == {<<>>, <<0>>, <<1>>}
SortManifests ==
    UNION {{[i \in 1..n |-> [guid |-> IF i = 1 THEN "g1" ELSE Null,
                              parent |-> IF i = 1 THEN Null ELSE m[i].parent,
                              order |-> m[i].order, file |-> i]] :
                m \in [1..n -> [parent : EntryParents, order : SortOrders]]} :
           n \in 0..MaxEntries}

SortInit == manifest \in SortManifests /\ MergeStart /\ SplitOff /\ OutOff

SortNext ==
    \/ FilePasses
    \/ MainGroup
    \/ LoadObjectEnter
    \/ LoadObjectReturn
    \/ MainAssembled
    \/ MainInvalidMod
    \/ MainWriteMerged

SortSpec == SortInit /\ [][SortNext]_vars

\* The law of one sibling list (entries by manifest index) and its group.
OrderedStably(list, group) ==
    /\ Len(list) = Len(group) /\ Range(list) = Range(group) /\ Injective(list)
    /\ \A i, j \in 1..Len(list) :
        i < j =>
            /\ (HasOrder(manifest[list[i]]) /\ HasOrder(manifest[list[j]])) =>
                manifest[list[i]].order[1] <= manifest[list[j]].order[1]
            /\ ~(~HasOrder(manifest[list[i]]) /\ HasOrder(manifest[list[j]]))
            /\ manifest[list[i]].order = manifest[list[j]].order => list[i] < list[j]

\* C14: stability law.  In the output the root list and the children of
\* every node are a permutation of their manifest group, in non-decreasing
\* numeric order, the entries without a numeric order behind all entries
\* that have one, and entries of equal order (or both without order) in
\* their manifest sequence.
C14_StabilityLaw ==
    Assembled =>
        /\ OrderedStably(EntriesOf(objectStates), RootGroup)
        /\ \A node \in NodesOf(objectStates) :
            node.field = "manifest" =>
                OrderedStably(EntriesOf(node.kids), GroupOfEntry(node.e))

\* C14 witness: a root list of three: two entries of equal order, moved in
\* front of an earlier entry without order and kept in manifest sequence.
C14_Witness ==
    /\ Assembled
    /\ EntriesOf(objectStates) = <<2, 3, 1>>
    /\ manifest[2].order = manifest[3].order

(***************************************************************************)
(* The split tool (bin/split-tts-save-pro.js) followed by the merge tool:  *)
(* main of split calls saveObjectToFile on every object of the document,   *)
(* depth first, and each call writes the object's data file and appends    *)
(* its manifest entry; then merge runs on what split wrote.  The document  *)
(* is the list of its objects in depth-first order, each with the index of *)
(* its container (0 at top level).  The names of the model hold only       *)
(* characters sanitize keeps.                                              *)
(***************************************************************************)
RECURSIVE AncSelf(_, _)
AncSelf(d, k) == IF k = 0 THEN {} ELSE {k} \cup AncSelf(d, d[k].up)
Docs ==
    UNION {{d \in [1..n -> [up : 0..(n - 1), guid : DocGuids,
                            name : {<<"Bag">>, <<"Bag", "!">>},
                            nick : {<<>>, <<"Bag">>}]] :
                \A i \in 1..n : d[i].up = 0 \/ d[i].up \in AncSelf(d, i - 1)} :
           n \in 0..MaxEntries}

(***************************************************************************)
(* Texts are sequences of tokens; a token is one character or a run of     *)
(* letters and digits.  <<>> is the empty string, and stands for a missing *)
(* value where the code tests the value for truth.                         *)
(***************************************************************************)
SliceLen == 50

Controls == {"\t", "\n"}
Spaces == {" "}
\* [\p{L}\p{N}_\-.]: a letter, a digit, "_", "-" or "."
IsWordChar(c) == c \notin Controls \cup Spaces \cup {"!", "/"}

\* .replace(/\s+/g, '_'): every run of whitespace becomes one "_"
RECURSIVE ReplaceSpaces(_)
ReplaceSpaces(s) ==
    IF s = <<>> THEN <<>>
    ELSE IF Head(s) \in Spaces
         THEN IF Len(s) > 1 /\ s[2] \in Spaces THEN ReplaceSpaces(Tail(s))
              ELSE <<"_">> \o ReplaceSpaces(Tail(s))
         ELSE <<Head(s)>> \o ReplaceSpaces(Tail(s))
\* .replace(/_+/g, '_') and .replace(/\.{2,}/g, '.'): runs of c become one c
RECURSIVE CollapseRuns(_, _)
CollapseRuns(s, c) ==
    IF s = <<>> THEN <<>>
    ELSE IF Head(s) = c /\ Len(s) > 1 /\ s[2] = c THEN CollapseRuns(Tail(s), c)
    ELSE <<Head(s)>> \o CollapseRuns(Tail(s), c)
\* .replace(/^[._]+/, '')
RECURSIVE StripLeading(_)
StripLeading(s) ==
    IF s # <<>> /\ Head(s) \in {".", "_"} THEN StripLeading(Tail(s)) ELSE s
\* .replace(/[._]+$/, '')
RECURSIVE StripTrailing(_)
StripTrailing(s) ==
    IF s # <<>> /\ s[Len(s)] \in {".", "_"} THEN StripTrailing(SubSeq(s, 1, Len(s) - 1))
    ELSE s
\* The replacements sanitize and sanitizeFileNameStrict share: control
\* characters are removed, runs of whitespace and every other character
\* that is no word character become "_", runs are collapsed, the ends are
\* stripped.
Cleaned(s) ==
    LET s1 == ReplaceSpaces(SelectSeq(s, LAMBDA c : c \notin Controls))
        s2 == [i \in 1..Len(s1) |-> IF IsWordChar(s1[i]) THEN s1[i] ELSE "_"]
    IN  StripTrailing(StripLeading(CollapseRuns(CollapseRuns(s2, "_"), ".")))

\* sanitize(str, fallback = 'unnamed')
Sanitize(str, fallback) ==
    LET s == Cleaned(str)
        t == IF s = <<>> THEN fallback ELSE s
    IN  SubSeq(t, 1, IF Len(t) < SliceLen THEN Len(t) ELSE SliceLen)
\* x || y on strings
Or(x, y) == IF x # <<>> THEN x ELSE y
\* sanitize(obj.GUID || 'noguid')
GuidPart(obj) ==
    Sanitize(IF Declared(obj.guid) THEN <<obj.guid>> ELSE <<"noguid">>, <<"unnamed">>)
\* padIndex(i): String(i).padStart(3, '0'), for i below 1000
PadIndex(i) ==
    LET Digits == <<"0", "1", "2", "3", "4", "5", "6", "7", "8", "9">>
    IN  <<Digits[(i \div 100) + 1], Digits[((i \div 10) % 10) + 1], Digits[(i % 10) + 1]>>
\* generateContainerRelPath(parentObj): Contained/<NicknameOrName>_<GUID>
GenerateContainerRelPath(parentObj) ==
    <<"Contained", "/">>
        \o Sanitize(Or(parentObj.nick, Or(parentObj.name, <<"Object">>)), <<"unnamed">>)
        \o <<"_">> \o GuidPart(parentObj)
\* generateTopLevelFilename(obj): Nickname.Name_GUID.json or Name_GUID.json
GenerateTopLevelFilename(obj) ==
    IF obj.nick # <<>> /\ obj.name # <<>>
    THEN Sanitize(obj.nick, <<"unnamed">>) \o <<".">> \o Sanitize(obj.name, <<"unnamed">>)
            \o <<"_">> \o GuidPart(obj) \o <<".json">>
    ELSE Sanitize(Or(obj.name, <<"Object">>), <<"unnamed">>)
            \o <<"_">> \o GuidPart(obj) \o <<".json">>
\* generateNestedFilename(obj, orderIndex): 000_Name_GUID.json
GenerateNestedFilename(obj, orderIndex) ==
    PadIndex(orderIndex) \o <<"_">> \o Sanitize(Or(obj.name, <<"Object">>), <<"unnamed">>)
        \o <<"_">> \o GuidPart(obj) \o <<".json">>

\* The objects directly contained in object i (0: the top level), in order.
DocKids(i) == SelectSeq([k \in 1..Len(doc) |-> k], LAMBDA k : doc[k].up = i)
\* The position of object i among its siblings (the loop index, from 0).
OrderOf(i) == Cardinality({k \in 1..(i - 1) : doc[k].up = doc[i].up})
\* path.join(relativePath, fileName) of the call for object i.
FilePathOf(i) ==
    IF doc[i].up = 0
    THEN GenerateTopLevelFilename(doc[i])
    ELSE GenerateContainerRelPath(doc[doc[i].up]) \o <<"/">>
            \o GenerateNestedFilename(doc[i], OrderOf(i))

RoundTripInit ==
    /\ doc \in Docs
    /\ splitIdx = 1
    /\ disk = <<>>
    /\ inputSave = "ok"
    /\ OutOff
    /\ manifest = <<>>
    /\ LoaderOff
    /\ mgIdx = 1
    /\ mgChecked = NoCheck
    /\ manifestMap = <<>>
    /\ asmStack = <<>>
    /\ objectStates = <<>>
    /\ mgErr = NoMgErr
    /\ pc = "splitting"
    /\ libDir = TRUE
    /\ lib = [id \in Ids |-> NoFile]
    /\ reLastIndex = 0
    /\ rootCode = <<>>
    /\ visited = {}
    /\ modules = <<>>
    /\ stack = <<>>
    /\ warnings = <<>>
    /\ loads = <<>>
    /\ result = NoResult
    /\ err = NoErr
    /\ written = FALSE

\* saveObjectToFile(obj, relativePath, parentGuid, order) up to its loop
\* over obj.ContainedObjects: the data file (the object with its own
\* ContainedObjects, without the scripts) and the manifest entry.
SaveObjectToFile ==
    /\ pc = "splitting" /\ splitIdx <= Len(doc)
    /\ disk' = Append(disk,
            [path |-> FilePathOf(splitIdx),
             rec |-> [uid |-> splitIdx, guid |-> doc[splitIdx].guid,
                      own |-> IF DocKids(splitIdx) # <<>> THEN "own" ELSE "none"]])
    /\ manifest' = Append(manifest,
            [guid |-> doc[splitIdx].guid,
             parent |-> IF doc[splitIdx].up = 0 THEN Null ELSE doc[doc[splitIdx].up].guid,
             order |-> <<OrderOf(splitIdx)>>,
             file |-> FilePathOf(splitIdx)])
    /\ splitIdx' = splitIdx + 1
    /\ UNCHANGED <<doc, inputSave, mgIdx, mgChecked, manifestMap, asmStack, objectStates,
                   mgErr>>
    /\ UNCHANGED <<bundlerVars, loaderVars, outVars>>

\* split's main has written manifest.json; merge's main reads it.
SplitFinish ==
    /\ pc = "splitting" /\ splitIdx > Len(doc)
    /\ pc' = "validating"
    /\ UNCHANGED <<libDir, lib, reLastIndex, rootCode, visited, modules, stack,
                   warnings, loads, result, err, written>>
    /\ UNCHANGED <<loaderVars, mergeVars, splitVars, outVars>>

RoundTripNext ==
    \/ SaveObjectToFile
    \/ SplitFinish
    \/ FilePasses
    \/ MainGroup
    \/ LoadObjectEnter
    \/ LoadObjectReturn
    \/ LoadObjectOverflow
    \/ MainAssembled
    \/ MainInvalidMod
    \/ MainWriteMerged

RoundTripSpec == RoundTripInit /\ [][RoundTripNext]_vars

\* The tree below object i of the document, and the tree an output node
\* stands for (a node that kept the ContainedObjects of its data file holds
\* the objects the document had there).
RECURSIVE DocShape(_)
DocShape(i) ==
    [uid |-> i, kids |-> [k \in 1..Len(DocKids(i)) |-> DocShape(DocKids(i)[k])]]
RECURSIVE OutShape(_)
OutShape(node) ==
    [uid |-> node.obj,
     kids |-> IF node.field = "manifest"
              THEN [k \in 1..Len(node.kids) |-> OutShape(node.kids[k])]
              ELSE IF node.field = "own" THEN DocShape(node.obj).kids ELSE <<>>]

\* C15 (as claimed): round trip.  For every document tree, containers
\* without a guid and objects sharing a guid or a name included, the forest
\* merge assembles from what split wrote is the document's forest: the same
\* objects, the same nesting, the same sibling order.
C15_RoundTrip ==
    (splitIdx > 0 /\ Assembled) =>
        [k \in 1..Len(objectStates) |-> OutShape(objectStates[k])] = DocShape(0).kids

(***************************************************************************)
(* The tail of merge's main, from the composed document on: the global     *)
(* markup, the archiving of previous builds, validateModStructure and the  *)
(* write of the output file.  The root objects are kept as far as          *)
(* validateModStructure reads them.                                        *)
(***************************************************************************)
MaxRoots == 2
\* sanitizeFileNameStrict(input, fallback)
SanitizeFileNameStrict(input, fallback) ==
    LET s1 == Cleaned(input)
        s2 == IF s1 = <<>> THEN fallback ELSE s1
        s3 == IF Len(s2) = 1 /\ s2[1] \in {"con", "prn", "aux", "nul"} THEN <<"_">> \o s2 ELSE s2
    IN  SubSeq(s3, 1, IF Len(s3) < SliceLen THEN Len(s3) ELSE SliceLen)

\* typeof x === 'string' && x.trim(): <<>> stands for a missing, non-string
\* or empty value.
Trim(s) == LET t == SelectSeq(s, LAMBDA c : c \notin Controls \cup Spaces)
           IN  IF t = <<>> THEN <<>>
               ELSE SubSeq(s, CHOOSE i \in 1..Len(s) :
                                 /\ s[i] \notin Controls \cup Spaces
                                 /\ \A j \in 1..(i - 1) : s[j] \in Controls \cup Spaces,
                              CHOOSE i \in 1..Len(s) :
                                 /\ s[i] \notin Controls \cup Spaces
                                 /\ \A j \in (i + 1)..Len(s) : s[j] \in Controls \cup Spaces)
\* pickBaseName(base, topLevelEntries); "Bag" is the nickname or type of the
\* first top-level entry.
PickBaseName(b, topLevelEntries) ==
    SanitizeFileNameStrict(
        IF Trim(b.SaveName) # <<>> THEN Trim(b.SaveName)
        ELSE IF Trim(b.GameMode) # <<>> THEN Trim(b.GameMode)
        ELSE IF topLevelEntries # <<>> THEN <<"Bag">> ELSE <<"TTS_Save">>,
        <<"TTS_Save">>)

\* base.json, as far as main reads it.
Bases == [SaveName : {<<>>, <<"My", " ", "Save">>}, GameMode : {<<>>, <<"A">>}]
\* The root objects of the merged document: GUID, and whether Name and
\* Transform are there.
RootLists ==
    UNION {[1..n -> [GUID : {Null, "g1"}, Name : BOOLEAN, Transform : BOOLEAN]] :
           n \in 0..MaxRoots}
\* main: const merged = {...base, ObjectStates, SaveName, GameMode, ...}
Compose(b, roots) ==
    [ObjectStates |-> roots,
     SaveName |-> IF Trim(b.SaveName) # <<>> THEN b.SaveName ELSE PickBaseName(b, roots),
     GameMode |-> IF Trim(b.GameMode) # <<>> THEN b.GameMode ELSE PickBaseName(b, roots),
     XmlUI |-> "unset"]

\* The build directory: the file this run writes, another save and a file
\* that is no save; each absent or holding a document of some GameMode.
NoFileThere == <<"nofile">>
OutputFile == [base |-> "out", ext |-> ".json"]
BuildNames == {OutputFile, [base |-> "old", ext |-> ".json"], [base |-> "notes", ext |-> ".txt"]}
BuildDirs ==
    {d \in [BuildNames -> {<<"A">>, <<"My", "_", "Save">>, NoFileThere}] :
        \A f \in BuildNames : f.ext # ".json" => d[f] \in {NoFileThere, <<"A">>}}
\* /^v?dev$/i.test(String(customVersion).trim())
IsDevBuild == customVersion \in {"dev", "vdev", "DEV", "vDEV"}

OutInit ==
    /\ customVersion \in {"dev", "v1"}
    /\ isCI \in BOOLEAN
    /\ rawXml \in {"absent", "plain", "include"}
    /\ xmlBundle = "notCalled"
    /\ \E b \in Bases, roots \in RootLists : merged = Compose(b, roots)
    /\ buildDir \in BuildDirs
    /\ archiveDir = {}
    /\ LoaderOff
    /\ MergeOff
    /\ SplitOff
    /\ pc = "composed"
    /\ libDir = TRUE
    /\ lib = [id \in Ids |-> NoFile]
    /\ reLastIndex = 0
    /\ rootCode = <<>>
    /\ visited = {}
    /\ modules = <<>>
    /\ stack = <<>>
    /\ warnings = <<>>
    /\ loads = <<>>
    /\ result = NoResult
    /\ err = NoErr
    /\ written = FALSE

\* What a step of the tail leaves alone besides its own variables.
TailFrame ==
    /\ UNCHANGED <<customVersion, isCI, rawXml>>
    /\ UNCHANGED <<libDir, lib, reLastIndex, rootCode, visited, modules, stack,
                   warnings, loads, result, err>>
    /\ UNCHANGED <<manifest, mgIdx, mgChecked, manifestMap, asmStack, objectStates>>
    /\ UNCHANGED <<loaderVars, splitVars>>

\* main: Global/UI.xml does not exist: merged.XmlUI is not set.
MainXmlAbsent ==
    /\ pc = "composed" /\ rawXml = "absent"
    /\ pc' = "markupDone"
    /\ UNCHANGED <<xmlBundle, merged, buildDir, archiveDir, mgErr, written>>
    /\ TailFrame

\* main: rawXml holds no '<Include src=': merged.XmlUI = rawXml.
MainXmlSimple ==
    /\ pc = "composed" /\ rawXml = "plain"
    /\ merged' = [merged EXCEPT !.XmlUI = rawXml]
    /\ pc' = "markupDone"
    /\ UNCHANGED <<xmlBundle, buildDir, archiveDir, mgErr, written>>
    /\ TailFrame

\* bundleXML(rawXml, xmlSourceDir): returns the markup with the includes
\* replaced, or throws.
BundleXML(raw) == {"resolved", "throws"}

\* main: rawXml holds an include and bundleXML returns.
MainXmlBundled ==
    /\ pc = "composed" /\ rawXml = "include"
    /\ \E out \in BundleXML(rawXml) \ {"throws"} :
        merged' = [merged EXCEPT !.XmlUI = out]
    /\ xmlBundle' = "returned"
    /\ pc' = "markupDone"
    /\ UNCHANGED <<buildDir, archiveDir, mgErr, written>>
    /\ TailFrame

\* MainXmlFallback with a fault: the error ends the merge.
MainXmlAbort ==
    /\ pc = "composed" /\ rawXml = "include"
    /\ "throws" \in BundleXML(rawXml)
    /\ xmlBundle' = "threw"
    /\ mgErr' = [kind |-> "xmlBundle", guid |-> "", path |-> 0]
    /\ pc' = "exit"
    /\ UNCHANGED <<merged, buildDir, archiveDir, written>>
    /\ TailFrame

\* main: rawXml holds an include and bundleXML throws: the catch logs the
\* error and sets merged.XmlUI = rawXml.
MainXmlFallback ==
    /\ pc = "composed" /\ rawXml = "include"
    /\ "throws" \in BundleXML(rawXml)
    /\ xmlBundle' = "threw"
    /\ merged' = [merged EXCEPT !.XmlUI = rawXml]
    /\ mgErr' = [kind |-> "xmlBundle", guid |-> "", path |-> 0]
    /\ pc' = "markupDone"
    /\ UNCHANGED <<buildDir, archiveDir, written>>
    /\ TailFrame

\* MainArchive with a fault: every .json file is moved, whatever its GameMode.
MainArchiveAll ==
    /\ pc = "markupDone"
    /\ ~IsDevBuild /\ ~isCI
    /\ LET moved == {f \in BuildNames : f.ext = ".json" /\ buildDir[f] # NoFileThere}
       IN  /\ archiveDir' = archiveDir \cup {[from |-> f, GameMode |-> buildDir[f]] : f \in moved}
           /\ buildDir' = [f \in BuildNames |-> IF f \in moved THEN NoFileThere ELSE buildDir[f]]
    /\ pc' = "archived"
    /\ UNCHANGED <<xmlBundle, merged, mgErr, written>>
    /\ TailFrame

\* main: if (!isDevBuild && !isCI) archivePreviousBuilds(merged.GameMode):
\* the .json files of buildDir whose content.GameMode === currentGameMode
\* are renamed into archiveDir.
MainArchive ==
    /\ pc = "markupDone"
    /\ ~IsDevBuild /\ ~isCI
    /\ LET moved == {f \in BuildNames : /\ f.ext = ".json"
                                        /\ buildDir[f] # NoFileThere
                                        /\ buildDir[f] = merged.GameMode}
       IN  /\ archiveDir' = archiveDir \cup {[from |-> f, GameMode |-> buildDir[f]] : f \in moved}
           /\ buildDir' = [f \in BuildNames |-> IF f \in moved THEN NoFileThere ELSE buildDir[f]]
    /\ pc' = "archived"
    /\ UNCHANGED <<xmlBundle, merged, mgErr, written>>
    /\ TailFrame

\* main: a dev build or a run in CI: archiving is disabled.
MainArchiveDisabled ==
    /\ pc = "markupDone"
    /\ IsDevBuild \/ isCI
    /\ pc' = "archived"
    /\ UNCHANGED <<xmlBundle, merged, buildDir, archiveDir, mgErr, written>>
    /\ TailFrame

\* validateModStructure(mod): the errors it collects.
ValidationErrors(mod) ==
    {"emptyObjectStates" : x \in {1} \cap (IF mod.ObjectStates = <<>> THEN {1} ELSE {})}
    \cup {"SaveName" : x \in {1} \cap (IF mod.SaveName = <<>> THEN {1} ELSE {})}
    \cup {"GameMode" : x \in {1} \cap (IF mod.GameMode = <<>> THEN {1} ELSE {})}
    \cup {<<i, "missingGUID">> : i \in {k \in 1..Len(mod.ObjectStates) :
                                        ~Declared(mod.ObjectStates[k].GUID)}}
    \cup {<<i, "missingName">> : i \in {k \in 1..Len(mod.ObjectStates) :
                                        ~mod.ObjectStates[k].Name}}
    \cup {<<i, "missingTransform">> : i \in {k \in 1..Len(mod.ObjectStates) :
                                        ~mod.ObjectStates[k].Transform}}
    \cup {<<i, "duplicateGUID">> : i \in {k \in 1..Len(mod.ObjectStates) :
                /\ Declared(mod.ObjectStates[k].GUID)
                /\ \E j \in 1..(k - 1) : mod.ObjectStates[j].GUID = mod.ObjectStates[k].GUID}}

\* main: validateModStructure(merged) finds errors: exit(1).
MainValidationFailed ==
    /\ pc = "archived"
    /\ ValidationErrors(merged) # {}
    /\ mgErr' = [kind |-> "validation", guid |-> "", path |-> 0]
    /\ pc' = "exit"
    /\ UNCHANGED <<xmlBundle, merged, buildDir, archiveDir, written>>
    /\ TailFrame

\* main: validateModStructure(merged) passes; fs.writeFileSync(outputFile).
MainWriteOutput ==
    /\ pc = "archived"
    /\ ValidationErrors(merged) = {}
    /\ buildDir' = [buildDir EXCEPT ![OutputFile] = merged.GameMode]
    /\ written' = TRUE
    /\ pc' = "done"
    /\ UNCHANGED <<xmlBundle, merged, archiveDir, mgErr>>
    /\ TailFrame

OutNext ==
    \/ MainXmlAbsent
    \/ MainXmlSimple
    \/ MainXmlBundled
    \/ MainXmlFallback
    \/ MainArchive
    \/ MainArchiveDisabled
    \/ MainValidationFailed
    \/ MainWriteOutput

OutSpec == OutInit /\ [][OutNext]_vars

\* The tail of main has ended.
TailEnded == pc \in {"exit", "done"}

\* C21: markup-include tolerance.  bundleXML is called only when the raw
\* markup holds an include marker; when it throws, merged.XmlUI becomes the
\* raw markup and main goes on: the only way left to end without output is
\* a validation error, and otherwise the document is written with the raw
\* markup in it.
C21_MarkupTolerance ==
    /\ [](xmlBundle # "notCalled" => rawXml = "include")
    /\ [][(xmlBundle = "notCalled" /\ xmlBundle' = "threw") =>
            (merged'.XmlUI = rawXml /\ pc' = "markupDone")]_vars
    /\ [](xmlBundle = "threw" =>
            /\ merged.XmlUI = rawXml
            /\ ~TailEnded => ENABLED OutNext
            /\ pc = "exit" => (mgErr.kind = "validation" /\ ValidationErrors(merged) # {})
            /\ pc = "done" => written)

\* C21 witness: bundleXML threw on a markup with an include, and the merge
\* has written its output with the raw markup.
C21_Witness ==
    /\ xmlBundle = "threw"
    /\ rawXml = "include"
    /\ pc = "done" /\ written
    /\ merged.XmlUI = "include"

C24_FailedValidationFrame ==
    [][ValidationErrors(merged) # {} =>
            (buildDir' = buildDir /\ archiveDir' = archiveDir /\ written' = written)]_vars

(***************************************************************************)
(* split's main from its start: the input is looked for, outputDir is      *)
(* cleaned, the input is read and parsed, and saveObjectToFile runs over   *)
(* data.ObjectStates.                                                      *)
(***************************************************************************)
\* outputDir before the run: empty, or the data file of an earlier split.
OldDisks ==
    {<<>>, <<[path |-> <<"Bag", "_", "g1", ".json">>,
              rec |-> [uid |-> 0, guid |-> "g1", own |-> "none"]]>>}

SplitInit ==
    \* inputPath holds nothing, a text that is no JSON, a JSON document
    \* without an ObjectStates array, or a save
    /\ inputSave \in {"missing", "invalid", "noObjectStates", "ok"}
    /\ doc \in (IF inputSave = "ok" THEN Docs ELSE {<<>>})
    /\ splitIdx = 0
    /\ disk \in OldDisks
    /\ manifest = <<>>
    /\ LoaderOff
    /\ OutOff
    /\ mgIdx = 1
    /\ mgChecked = NoCheck
    /\ manifestMap = <<>>
    /\ asmStack = <<>>
    /\ objectStates = <<>>
    /\ mgErr = NoMgErr
    /\ pc = "splitMain"
    /\ libDir = TRUE
    /\ lib = [id \in Ids |-> NoFile]
    /\ reLastIndex = 0
    /\ rootCode = <<>>
    /\ visited = {}
    /\ modules = <<>>
    /\ stack = <<>>
    /\ warnings = <<>>
    /\ loads = <<>>
    /\ result = NoResult
    /\ err = NoErr
    /\ written = FALSE

\* What a step of split's main before the first saveObjectToFile leaves
\* alone.
SplitFrame ==
    /\ UNCHANGED <<doc, inputSave>>
    /\ UNCHANGED <<libDir, lib, reLastIndex, rootCode, visited, modules, stack,
                   warnings, loads, result, err, written>>
    /\ UNCHANGED <<loaderVars, mergeVars, outVars>>

\* main: if (!fs.existsSync(inputPath)): exit(1).
SplitInputMissing ==
    /\ pc = "splitMain" /\ inputSave = "missing"
    /\ pc' = "exit"
    /\ UNCHANGED <<splitIdx, disk>>
    /\ SplitFrame

\* main: fs.mkdirSync(outputDir); cleanDirectory(outputDir): every file and
\* directory below outputDir is removed.
SplitClean ==
    /\ pc = "splitMain" /\ inputSave # "missing"
    /\ disk' = <<>>
    /\ pc' = "splitRead"
    /\ UNCHANGED splitIdx
    /\ SplitFrame

\* main: JSON.parse(raw) throws: exit(1).
SplitInvalidJson ==
    /\ pc = "splitRead" /\ inputSave = "invalid"
    /\ pc' = "exit"
    /\ UNCHANGED <<splitIdx, disk>>
    /\ SplitFrame

\* main: data.ObjectStates is no array: exit(1).
SplitNoObjectStates ==
    /\ pc = "splitRead" /\ inputSave = "noObjectStates"
    /\ pc' = "exit"
    /\ UNCHANGED <<splitIdx, disk>>
    /\ SplitFrame

\* main: the input is a save: the loop over data.ObjectStates starts.
SplitAccept ==
    /\ pc = "splitRead" /\ inputSave = "ok"
    /\ splitIdx' = 1
    /\ pc' = "splitting"
    /\ UNCHANGED disk
    /\ SplitFrame

SplitNext ==
    \/ SplitInputMissing
    \/ SplitClean
    \/ SplitInvalidJson
    \/ SplitNoObjectStates
    \/ SplitAccept
    \/ SaveObjectToFile
    \/ SplitFinish

SplitSpec == SplitInit /\ [][SplitNext]_vars

\* C25 (as claimed): a split whose input is no JSON, or has no ObjectStates
\* array, leaves the contents of the output directory as they were: no step
\* of such a run changes them.
C25_RejectedInputKeepsOutput ==
    [][(inputSave \in {"invalid", "noObjectStates"}) => (disk' = disk)]_vars

\* C26 (as claimed): split never overwrites one entity with another.  The
\* manifest entries split has produced have pairwise distinct file paths,
\* and once split is through, the data file of every entity holds that
\* entity.
C26_DistinctPaths ==
    /\ \A i, j \in 1..Len(manifest) : manifest[i].file = manifest[j].file => i = j
    /\ (splitIdx > Len(doc) /\ pc = "validating") =>
            \A i \in 1..Len(doc) : ReadDisk(FilePathOf(i)).uid = i

====
